---------------------------- MODULE Spec2Model ----------------------------
(***************************************************************************)
(* Model of the steering demo in src/src/main.rs: the startup system       *)
(* `start` and the three per-frame systems chase_mouse, apply_force and    *)
(* update_boids, run by the engine's frame scheduler.                      *)
(*                                                                         *)
(* Numbers.  The program computes in f32.  The model computes in fixed     *)
(* point: every coordinate is an integer count of 1/Scale of a pixel, and  *)
(* a result that is not on that grid is rounded toward zero.  f32 rounding *)
(* (to nearest, relative error 2^-24), underflow, infinities and NaN       *)
(* inputs are outside the model; the only NaN modelled is the one          *)
(* angle_between produces for a zero vector.                               *)
(*                                                                         *)
(* Angles.  An angle in (-pi, pi] is represented by the direction it       *)
(* turns (1,0) to, as a pair of coprime integers: 0 is <<1,0>>, pi/2 is    *)
(* <<0,1>>, pi is <<-1,0>>.  Two angles are equal iff their pairs are.     *)
(***************************************************************************)
EXTENDS Integers, Sequences, FiniteSets

VARIABLES
    phase,        \* "startup" before the startup system has run, then "update"
    window,       \* Windows::get_primary(): NoWindow, or <<[width, height, cursor]>>
    transform,    \* entity -> Transform  [translation: <<x,y,z>>, rotation: angle]
    velocity,     \* entity -> Velocity   [vector: <<x,y>>, max]
    force,        \* entity -> Force      [vector: <<x,y>>, max]
    ran,          \* the systems that have run in the current frame, in order
    frame,        \* number of the current frame
    frameStart,   \* history: the components as they were when the frame began
    lastOfPrev    \* history: the system that ran last in the previous frame

vars == <<phase, window, transform, velocity, force, ran, frame, frameStart, lastOfPrev>>

-----------------------------------------------------------------------------
(* Bounds of the model *)

\* fixed-point resolution: units per 1.0
Scale == 20
\* frames explored after startup
MaxFrames == 2

-----------------------------------------------------------------------------
(* Program constants *)

\* (0..100).for_each
NumBoids == 100
\* Velocity { max: 1.0 }
VelocityMax == (1 * Scale)
\* Force { max: 0.25 }
ForceMax == (25 * Scale) \div 100

\* Option::None of get_primary() and of cursor_position(): the empty tuple;
\* Some(w) is the one-element tuple <<w>>, Some(cursor) is the pair itself
NoWindow == << >>
NoCursor == << >>
\* the angle of no direction, acos(0/0)
NaN == <<0, 0>>

-----------------------------------------------------------------------------
(* Vec2 / Vec3 arithmetic (glam) *)

Abs(n) == IF n < 0 THEN -n ELSE n
Sign(n) == IF n < 0 THEN -1 ELSE IF n > 0 THEN 1 ELSE 0

Vec2Zero == <<0, 0>>
Add(a, b) == <<a[1] + b[1], a[2] + b[2]>>
Sub(a, b) == <<a[1] - b[1], a[2] - b[2]>>
Half(a) == <<a[1] \div 2, a[2] \div 2>>
Dot(a, b) == a[1] * b[1] + a[2] * b[2]
PerpDot(a, b) == a[1] * b[2] - a[2] * b[1]
LengthSquared(a) == Dot(a, a)
\* Vec2::extend(z) and Vec3::truncate()
Extend(a, z) == <<a[1], a[2], z>>
Truncate(t) == <<t[1], t[2]>>
Add3(s, t) == <<s[1] + t[1], s[2] + t[2], s[3] + t[3]>>

\* c * max / sqrt(lengthSq), rounded toward zero: the largest k with
\* (k * sqrt(lengthSq))^2 <= (|c| * max)^2, carrying the sign of c.
ScaleComponent(c, lengthSq, max) ==
    Sign(c) * (CHOOSE k \in 0..max :
                 /\ k * k * lengthSq <= c * c * max * max
                 /\ (k + 1) * (k + 1) * lengthSq > c * c * max * max)

\* a mutant of clamp_length_max: compares the squared length with max, not max * max
clamp_length_max_cmp(v, max) ==
    LET length_sq == LengthSquared(v)
    IN  IF length_sq > max
        THEN <<ScaleComponent(v[1], length_sq, max), ScaleComponent(v[2], length_sq, max)>>
        ELSE v

\* a mutant of clamp_length_max: never clamps
clamp_length_max_off(v, max) == v

\* Vec2::clamp_length_max: v when |v| <= max, else v rescaled to length max
clamp_length_max(v, max) ==
    LET length_sq == LengthSquared(v)
    IN  IF length_sq > max * max
        THEN <<ScaleComponent(v[1], length_sq, max), ScaleComponent(v[2], length_sq, max)>>
        ELSE v

RECURSIVE Gcd(_, _)
Gcd(a, b) == IF b = 0 THEN a ELSE Gcd(b, a % b)

\* Vec2::angle_between: acos(a.b / sqrt(|a|^2 |b|^2)), negated when perp_dot < 0.
\* The division is 0/0 when either vector is zero, and the result is NaN.
angle_between(a, b) ==
    IF LengthSquared(a) * LengthSquared(b) = 0
    THEN NaN
    ELSE LET c == Dot(a, b)
             s == PerpDot(a, b)
             g == Gcd(Abs(c), Abs(s))
         IN  <<c \div g, s \div g>>

\* Quat::IDENTITY, the rotation of Transform::from_xyz: the angle 0
QuatIdentity == <<1, 0>>

-----------------------------------------------------------------------------
(* The environment: the primary window and the random generator *)

Entities == 1..NumBoids

\* window sizes (width, height), in units
Sizes == {<<8 * Scale, 6 * Scale>>, <<6 * Scale, 4 * Scale>>}

\* cursor positions a window of the given size may report (window coordinates)
Cursors(size) == {NoCursor, <<size[1], size[2] \div 2>>}

OpenWindows == UNION {{<<[width |-> size[1], height |-> size[2], cursor |-> c]>> :
                          c \in Cursors(size)} : size \in Sizes}
WindowStates == {NoWindow} \cup OpenWindows

\* seeds of thread_rng
Seeds == {1, 2}

\* the k-th draw of rng.gen_range(lo..hi) of the generator seeded with seed:
\* some value of the half-open range
gen_range(seed, k, lo, hi) == lo + ((seed * 7919 + k * k * 31 + k * 17 * seed) % (hi - lo))

-----------------------------------------------------------------------------
(* Startup *)

Snapshot == [transform |-> transform, velocity |-> velocity, force |-> force]

\* App::new().add_plugins(DefaultPlugins): the primary window exists, no entity yet
Init ==
    /\ phase = "startup"
    /\ window \in OpenWindows
    /\ transform = << >>
    /\ velocity = << >>
    /\ force = << >>
    /\ ran = << >>
    /\ frame = 0
    /\ frameStart = [transform |-> << >>, velocity |-> << >>, force |-> << >>]
    /\ lastOfPrev = "none"

\* create_boid_mesh_bundle: Transform::from_xyz(x, y, 0.0)
create_boid_mesh_bundle(coordinates) ==
    [translation |-> <<coordinates[1], coordinates[2], 0>>, rotation |-> QuatIdentity]

\* a mutant of SpawnAt: draws from -width..width and -height..height
SpawnAtWide(seed, i) ==
    LET width == window[1].width
        x == gen_range(seed, 2 * i, -width, width)
        height == window[1].height
        y == gen_range(seed, 2 * i + 1, -height, height)
    IN  <<x, y>>

\* the coordinates drawn for the i-th boid
SpawnAt(seed, i) ==
    LET width == window[1].width
        x == gen_range(seed, 2 * i, -(width \div 2), width \div 2)
        height == window[1].height
        y == gen_range(seed, 2 * i + 1, -(height \div 2), height \div 2)
    IN  <<x, y>>

\* the startup system
start ==
    /\ phase = "startup"
    /\ \E seed \in Seeds :
         LET spawned == IF window # NoWindow THEN Entities ELSE {}
         IN  /\ transform' = [e \in spawned |-> create_boid_mesh_bundle(SpawnAt(seed, e))]
             /\ velocity' = [e \in spawned |-> [vector |-> Vec2Zero, max |-> VelocityMax]]
             /\ force' = [e \in spawned |-> [vector |-> Vec2Zero, max |-> ForceMax]]
    /\ phase' = "update"
    /\ frame' = 1
    /\ ran' = << >>
    /\ frameStart' = [transform |-> transform', velocity |-> velocity', force |-> force']
    /\ UNCHANGED <<window, lastOfPrev>>

-----------------------------------------------------------------------------
(* The per-frame systems *)

\* The scheduler runs each registered system once per frame.  The systems are
\* registered with add_system and no ordering constraint, so the engine is free
\* to start them in any order; every pair of them accesses a common component,
\* one of the two mutably, so the engine never runs two of them at once.
CanRun(system) ==
    /\ phase = "update"
    /\ \A i \in 1..Len(ran) : ran[i] # system

Ran(system) ==
    /\ ran' = Append(ran, system)
    /\ UNCHANGED <<phase, window, frame, frameStart, lastOfPrev>>

\* the force chase_mouse writes for one entity
ChaseForce(e) ==
    LET real_cursor_position == Sub(window[1].cursor, Half(<<window[1].width, window[1].height>>))
        desired_velocity == Sub(real_cursor_position, Truncate(transform[e].translation))
    IN  clamp_length_max(Sub(desired_velocity, velocity[e].vector), force[e].max)

\* a mutant of chase_mouse: clears the force when there is no cursor
chase_mouse_clear ==
    /\ CanRun("chase_mouse")
    /\ IF window # NoWindow /\ window[1].cursor # NoCursor
       THEN force' = [e \in DOMAIN force |-> [force[e] EXCEPT !.vector = ChaseForce(e)]]
       ELSE force' = [e \in DOMAIN force |-> [force[e] EXCEPT !.vector = Vec2Zero]]
    /\ UNCHANGED <<velocity, transform>>
    /\ Ran("chase_mouse")

\* a mutant of chase_mouse: steers by the desired velocity alone
chase_mouse_desired ==
    /\ CanRun("chase_mouse")
    /\ IF window # NoWindow /\ window[1].cursor # NoCursor
       THEN force' = [e \in DOMAIN force |->
                        [force[e] EXCEPT !.vector =
                            clamp_length_max(
                                Sub(Sub(window[1].cursor, Half(<<window[1].width, window[1].height>>)),
                                    Truncate(transform[e].translation)),
                                force[e].max)]]
       ELSE force' = force
    /\ UNCHANGED <<velocity, transform>>
    /\ Ran("chase_mouse")

chase_mouse ==
    /\ CanRun("chase_mouse")
    /\ IF window # NoWindow /\ window[1].cursor # NoCursor
       THEN force' = [e \in DOMAIN force |-> [force[e] EXCEPT !.vector = ChaseForce(e)]]
       ELSE force' = force
    /\ UNCHANGED <<velocity, transform>>
    /\ Ran("chase_mouse")

\* a mutant of apply_force: leaves the force in place
apply_force_keep ==
    /\ CanRun("apply_force")
    /\ velocity' = [e \in DOMAIN velocity |->
                      [velocity[e] EXCEPT !.vector =
                          clamp_length_max(Add(velocity[e].vector, force[e].vector),
                                           velocity[e].max)]]
    /\ force' = force
    /\ UNCHANGED transform
    /\ Ran("apply_force")

apply_force ==
    /\ CanRun("apply_force")
    /\ velocity' = [e \in DOMAIN velocity |->
                      [velocity[e] EXCEPT !.vector =
                          clamp_length_max(Add(velocity[e].vector, force[e].vector),
                                           velocity[e].max)]]
    /\ force' = [e \in DOMAIN force |-> [force[e] EXCEPT !.vector = Vec2Zero]]
    /\ UNCHANGED transform
    /\ Ran("apply_force")

\* a mutant of update_boids: sets the rotation without the zero-length guard
update_boids_unguarded ==
    /\ CanRun("update_boids")
    /\ transform' = [e \in DOMAIN transform |->
                       [translation |-> Add3(transform[e].translation,
                                             Extend(velocity[e].vector, 0)),
                        rotation |-> angle_between(<<1, 0>>, velocity[e].vector)]]
    /\ UNCHANGED <<velocity, force>>
    /\ Ran("update_boids")

\* a mutant of update_boids: measures the angle from the velocity to the axis
update_boids_swapped ==
    /\ CanRun("update_boids")
    /\ transform' = [e \in DOMAIN transform |->
                       [translation |-> Add3(transform[e].translation,
                                             Extend(velocity[e].vector, 0)),
                        rotation |-> IF LengthSquared(velocity[e].vector) # 0
                                     THEN angle_between(velocity[e].vector, <<1, 0>>)
                                     ELSE transform[e].rotation]]
    /\ UNCHANGED <<velocity, force>>
    /\ Ran("update_boids")

update_boids ==
    /\ CanRun("update_boids")
    /\ transform' = [e \in DOMAIN transform |->
                       [translation |-> Add3(transform[e].translation,
                                             Extend(velocity[e].vector, 0)),
                        rotation |-> IF LengthSquared(velocity[e].vector) # 0
                                     THEN angle_between(<<1, 0>>, velocity[e].vector)
                                     ELSE transform[e].rotation]]
    /\ UNCHANGED <<velocity, force>>
    /\ Ran("update_boids")

\* The engine ends the frame once every system has run, takes the window's
\* events (resize, cursor moved, cursor left, window gone) and begins the next.
NextFrame ==
    /\ phase = "update"
    /\ Len(ran) = 3
    /\ frame < MaxFrames
    /\ window' \in WindowStates
    /\ frame' = frame + 1
    /\ ran' = << >>
    /\ frameStart' = Snapshot
    /\ lastOfPrev' = ran[3]
    /\ UNCHANGED <<phase, transform, velocity, force>>

Next == start \/ chase_mouse \/ apply_force \/ update_boids \/ NextFrame

Spec == Init /\ [][Next]_vars


-----------------------------------------------------------------------------
(* The systems on arbitrary component values *)

\* One entity whose components hold any of these values, run through the last
\* two frames of a run.  The values include vectors longer than their max, which
\* the systems accept as input.
SysCursors(size) == Cursors(size) \cup {<<size[1] \div 4, 0>>}
SysWindows == {NoWindow} \cup
              UNION {{<<[width |-> size[1], height |-> size[2], cursor |-> c]>> :
                        c \in SysCursors(size)} : size \in Sizes}
SysTranslations == {<<0, 0, 0>>, <<-30, 10, 0>>, <<2 * Scale, -Scale, 0>>}
SysRotations == {QuatIdentity, <<-3, 4>>}
SysVelocities == {Vec2Zero, <<Scale, 0>>, <<-Scale, 0>>, <<0, -1>>, <<-7, 7>>, <<5, 12>>,
                  <<3 * Scale, 4 * Scale>>}
SysForces == {Vec2Zero, <<10 * Scale, 0>>, <<3, -4>>, <<-1, 2>>}

InitSys ==
    /\ phase = "update"
    /\ window \in SysWindows
    /\ transform \in [{1} -> [translation : SysTranslations, rotation : SysRotations]]
    /\ velocity \in [{1} -> [vector : SysVelocities, max : {VelocityMax}]]
    /\ force \in [{1} -> [vector : SysForces, max : {ForceMax}]]
    /\ ran = << >>
    /\ frame = MaxFrames - 1
    /\ frameStart = Snapshot
    /\ lastOfPrev = "none"

SysNext == chase_mouse \/ apply_force \/ update_boids \/ NextFrame

SysSpec == InitSys /\ [][SysNext]_vars

\* every vector within its max
WithinMax ==
    \A e \in DOMAIN velocity :
        /\ LengthSquared(velocity[e].vector) <= velocity[e].max * velocity[e].max
        /\ LengthSquared(force[e].vector) <= force[e].max * force[e].max

\* The same, from the component values that are within their max: the states
\* a long run can be in.
InitInd == InitSys /\ WithinMax

IndSpec == InitInd /\ [][SysNext]_vars

-----------------------------------------------------------------------------
(* Vocabulary of the properties *)

RegistrationOrder == <<"chase_mouse", "apply_force", "update_boids">>

\* the step is a run of the given system
Runs(system) == ran' = Append(ran, system)

\* the system that ran last, in this frame or the one before
LastRun == IF ran # << >> THEN ran[Len(ran)] ELSE lastOfPrev

FrameDone == phase = "update" /\ Len(ran) = 3

CursorAvailable == window # NoWindow /\ window[1].cursor # NoCursor

\* r is s cut to length max, on the grid: s itself when |s| <= max; otherwise
\* no longer than max, shorter by less than two units, and pointing the way s
\* does up to the rounding of its two components.
IsClampOf(r, s, max) ==
    IF LengthSquared(s) <= max * max
    THEN r = s
    ELSE /\ LengthSquared(r) <= max * max
         /\ LengthSquared(r) > (max - 2) * (max - 2)
         /\ Dot(r, s) > 0
         /\ Abs(PerpDot(r, s)) <= Abs(s[1]) + Abs(s[2])

\* d is the angle from the axis (1,0) to the non-zero vector v
IsAngleOf(d, v) ==
    /\ PerpDot(d, v) = 0
    /\ Dot(d, v) > 0
    /\ Gcd(Abs(d[1]), Abs(d[2])) = 1

-----------------------------------------------------------------------------
(* C1 *)

\* C1: in every state every agent's velocity is no longer than velocity.max
\* and its force no longer than force.max, whatever the systems' order and
\* whatever the cursor does.
C1_WithinMax == WithinMax

\* apply_force has cut a velocity that would have exceeded its max, and
\* chase_mouse after it a steering force longer than its max
C1_Witness ==
    /\ ran = <<"apply_force", "chase_mouse">>
    /\ CursorAvailable
    /\ \E e \in DOMAIN velocity :
         /\ LengthSquared(Add(frameStart.velocity[e].vector, frameStart.force[e].vector))
                > velocity[e].max * velocity[e].max
         /\ velocity[e].vector # Add(frameStart.velocity[e].vector, frameStart.force[e].vector)
         /\ LengthSquared(velocity[e].vector) > (velocity[e].max - 2) * (velocity[e].max - 2)
         /\ LengthSquared(force[e].vector) > (force[e].max - 2) * (force[e].max - 2)

-----------------------------------------------------------------------------
(* C2 *)

\* C2: in every frame the systems run in the order chase_mouse, apply_force,
\* update_boids: what has run so far is always a prefix of that order.
C2_FixedOrder ==
    \A i \in 1..Len(ran) : ran[i] = RegistrationOrder[i]

\* what does hold of the schedule: each system runs at most once per frame, and
\* a frame ends only when all three have run
C2_OncePerFrame ==
    /\ Len(ran) <= 3
    /\ \A i, j \in 1..Len(ran) : ran[i] = ran[j] => i = j
    /\ \A i \in 1..Len(ran) : ran[i] \in {"chase_mouse", "apply_force", "update_boids"}

-----------------------------------------------------------------------------
(* C9 *)

\* C9: startup places NumBoids agents, each inside the window's centred
\* rectangle, unrotated, with zero velocity and force and the max constants 1.0
\* and 0.25; afterwards the set of agents and their max constants never change.
C9_Startup ==
    phase = "update" =>
        /\ DOMAIN transform = 1..100
        /\ DOMAIN velocity = 1..100
        /\ DOMAIN force = 1..100
        /\ Cardinality(DOMAIN transform) = 100
        /\ \A e \in DOMAIN transform :
             /\ velocity[e].max = Scale
             /\ 4 * force[e].max <= Scale /\ 4 * (force[e].max + 1) > Scale
        /\ frame = 1 =>
             \A e \in DOMAIN transform :
                 LET t == frameStart.transform[e].translation
                 IN  /\ 2 * t[1] >= -window[1].width /\ 2 * t[1] <= window[1].width
                     /\ 2 * t[2] >= -window[1].height /\ 2 * t[2] <= window[1].height
                     /\ t[3] = 0
                     /\ frameStart.transform[e].rotation = <<1, 0>>
                     /\ frameStart.velocity[e].vector = <<0, 0>>
                     /\ frameStart.force[e].vector = <<0, 0>>

\* the agents have been placed and have since moved through whole frames
C9_Witness ==
    /\ FrameDone
    /\ frame = MaxFrames
    /\ Cardinality(DOMAIN transform) = 100
    /\ \E e \in DOMAIN transform : transform[e] # frameStart.transform[e]
    /\ \E e, f \in DOMAIN transform :
         transform[e].translation[1] < 0 /\ transform[f].translation[1] > 0

-----------------------------------------------------------------------------
(* C10 *)

\* C10: after every frame run in registration order every force is zero; in
\* a frame without a cursor every agent ends with the velocity it began with
\* and has moved by exactly that velocity; and an agent that has seen no cursor
\* since startup is where and how startup put it.
C10_Coasting ==
    /\ (FrameDone /\ ran = RegistrationOrder) =>
           \A e \in DOMAIN force : force[e].vector = Vec2Zero
    /\ (FrameDone /\ ~CursorAvailable) =>
           \A e \in DOMAIN velocity :
               /\ velocity[e].vector = frameStart.velocity[e].vector
               /\ transform[e].translation =
                      Add3(frameStart.transform[e].translation, Extend(velocity[e].vector, 0))
    /\ (FrameDone /\ frame = 1 /\ ~CursorAvailable) =>
           \A e \in DOMAIN transform : transform[e] = frameStart.transform[e]

-----------------------------------------------------------------------------
(* C3 *)

\* C3: a run of apply_force sets every velocity to velocity + force cut to
\* velocity.max and every force to zero, and changes neither max; velocity
\* (0,0) with force (10,0) and max 1.0 becomes velocity (1,0).
C3_ApplyForce ==
    [][Runs("apply_force") =>
        \A e \in DOMAIN velocity :
            /\ IsClampOf(velocity'[e].vector,
                         <<velocity[e].vector[1] + force[e].vector[1],
                           velocity[e].vector[2] + force[e].vector[2]>>,
                         velocity[e].max)
            /\ force'[e].vector = <<0, 0>>
            /\ velocity'[e].max = velocity[e].max
            /\ force'[e].max = force[e].max
            /\ (/\ velocity[e].vector = <<0, 0>>
                /\ force[e].vector = <<10 * Scale, 0>>
                /\ velocity[e].max = Scale) => velocity'[e].vector = <<Scale, 0>>]_vars

\* apply_force has turned velocity (0,0), force (10,0) into velocity (1,0), force (0,0)
C3_Witness ==
    /\ ran = <<"apply_force">>
    /\ \E e \in DOMAIN velocity :
         /\ frameStart.velocity[e].vector = <<0, 0>>
         /\ frameStart.force[e].vector = <<10 * Scale, 0>>
         /\ velocity[e] = [vector |-> <<Scale, 0>>, max |-> Scale]
         /\ force[e].vector = <<0, 0>>

-----------------------------------------------------------------------------
(* C4 *)

\* C4: with a cursor available, chase_mouse sets every force to
\* (cursor - (width, height)/2 - position) - velocity cut to force.max, which
\* for an agent at rest is the offset of the centred cursor from the agent; it
\* changes no velocity and no transform.
C4_ChaseMouse ==
    [][(Runs("chase_mouse") /\ CursorAvailable) =>
        /\ \A e \in DOMAIN force :
             LET P == <<window[1].cursor[1] - window[1].width \div 2,
                        window[1].cursor[2] - window[1].height \div 2>>
                 Q == <<transform[e].translation[1], transform[e].translation[2]>>
                 v == velocity[e].vector
             IN  /\ IsClampOf(force'[e].vector,
                              <<(P[1] - Q[1]) - v[1], (P[2] - Q[2]) - v[2]>>,
                              force[e].max)
                 /\ v = <<0, 0>> =>
                        IsClampOf(force'[e].vector, <<P[1] - Q[1], P[2] - Q[2]>>, force[e].max)
                 /\ force'[e].max = force[e].max
        /\ velocity' = velocity
        /\ transform' = transform]_vars

\* chase_mouse has steered a moving agent: the force it wrote is neither the
\* one that was there nor the bare offset to the cursor cut to length
C4_Witness ==
    /\ ran = <<"chase_mouse">>
    /\ CursorAvailable
    /\ \E e \in DOMAIN force :
         /\ velocity[e].vector # <<0, 0>>
         /\ force[e].vector # frameStart.force[e].vector
         /\ ~IsClampOf(force[e].vector,
                       <<window[1].cursor[1] - window[1].width \div 2
                             - transform[e].translation[1],
                         window[1].cursor[2] - window[1].height \div 2
                             - transform[e].translation[2]>>,
                       force[e].max)

-----------------------------------------------------------------------------
(* C5 *)

\* C5: without a primary window, or without a cursor position, a run of
\* chase_mouse changes no force, no velocity and no transform, and the run
\* completes: chase_mouse can always take its turn in the frame.
C5_NoCursorNoOp ==
    /\ [][(Runs("chase_mouse") /\ ~CursorAvailable) =>
            /\ force' = force
            /\ velocity' = velocity
            /\ transform' = transform]_vars
    /\ [](CanRun("chase_mouse") => ENABLED chase_mouse)

\* chase_mouse has run with no window and left a pending force as it was
C5_Witness ==
    /\ ran = <<"chase_mouse">>
    /\ window = NoWindow
    /\ \E e \in DOMAIN force :
         force[e].vector # <<0, 0>> /\ force[e] = frameStart.force[e]

-----------------------------------------------------------------------------
(* C6 *)

\* C6: when apply_force runs right after apply_force, with no system between
\* the two runs, the second run leaves every velocity as the first left it.
C6_ApplyTwice ==
    [][(Runs("apply_force") /\ LastRun = "apply_force") => velocity' = velocity]_vars

\* apply_force ended one frame and began the next, and the agent is moving
C6_Witness ==
    /\ lastOfPrev = "apply_force"
    /\ ran = <<"apply_force">>
    /\ \E e \in DOMAIN velocity :
         /\ velocity[e].vector # <<0, 0>>
         /\ velocity[e] = frameStart.velocity[e]

-----------------------------------------------------------------------------
(* C7 *)

\* C7: update_boids writes a rotation exactly for the agents whose velocity is
\* not the zero vector, and what it writes is an angle; an agent at rest at the
\* start and at the end of a frame ends the frame with the transform it had.
C7_RestKeepsRotation ==
    /\ [][Runs("update_boids") =>
            \A e \in DOMAIN transform :
                /\ velocity[e].vector = <<0, 0>> =>
                       transform'[e].rotation = transform[e].rotation
                /\ velocity[e].vector # <<0, 0>> =>
                       IsAngleOf(transform'[e].rotation, velocity[e].vector)]_vars
    /\ [](FrameDone =>
            \A e \in DOMAIN transform :
                (frameStart.velocity[e].vector = <<0, 0>> /\ velocity[e].vector = <<0, 0>>)
                    => transform[e] = frameStart.transform[e])

\* a turned agent has been at rest through a whole frame and is still turned
C7_Witness ==
    /\ FrameDone
    /\ \E e \in DOMAIN transform :
         /\ frameStart.velocity[e].vector = <<0, 0>>
         /\ velocity[e].vector = <<0, 0>>
         /\ transform[e].rotation = <<-3, 4>>

-----------------------------------------------------------------------------
(* C8 *)

\* C8: a run of update_boids moves every agent by its velocity and, when the
\* velocity is not zero, turns it to the angle from (1,0) to the velocity,
\* whatever its rotation was; velocity (1,0) at position (0,0) gives position
\* (1,0) and angle 0.  It changes no velocity and no force.
C8_UpdateBoids ==
    [][Runs("update_boids") =>
        /\ \A e \in DOMAIN transform :
             LET p == transform[e].translation
                 v == velocity[e].vector
             IN  /\ transform'[e].translation = <<p[1] + v[1], p[2] + v[2], p[3]>>
                 /\ v # <<0, 0>> => IsAngleOf(transform'[e].rotation, v)
                 /\ (v = <<Scale, 0>> /\ p = <<0, 0, 0>>) =>
                        transform'[e] = [translation |-> <<Scale, 0, 0>>,
                                         rotation |-> <<1, 0>>]
        /\ velocity' = velocity
        /\ force' = force]_vars

\* update_boids has moved a turned agent from (0,0) by (1,0) and set its angle to 0
C8_Witness ==
    /\ ran = <<"update_boids">>
    /\ \E e \in DOMAIN transform :
         /\ velocity[e].vector = <<Scale, 0>>
         /\ frameStart.transform[e] = [translation |-> <<0, 0, 0>>, rotation |-> <<-3, 4>>]
         /\ transform[e] = [translation |-> <<Scale, 0, 0>>, rotation |-> <<1, 0>>]

=============================================================================
